---- MODULE Spec2Model ----
(***************************************************************************)
(* Model of src/producer/base_producer.rs: BaseProducer (send_copy, poll,  *)
(* flush, in_flight_count, clone), the delivery_cb trampoline, and the     *)
(* ThreadedProducer (start, the polling thread loop, stop, Drop).          *)
(*                                                                         *)
(* One ThreadedProducer is constructed.  The user thread owns the wrapper  *)
(* and calls send_copy / poll / flush / in_flight_count on it and finally  *)
(* drops it; the polling thread owns `producer_clone`.  The native client  *)
(* (librdkafka) is modelled by its primitives rd_kafka_producev,           *)
(* rd_kafka_poll, rd_kafka_flush and rd_kafka_outq_len.                    *)
(***************************************************************************)
EXTENDS Integers, Sequences, FiniteSets, TLC

\* ---- bounds ----
MaxMsgs == 2                    \* number of send_copy calls explored

\* ---- values ----
NULL == 0                       \* the null pointer
NONE == "NONE"                  \* a handle that holds no Arc (dropped / not created)
Clients == {"c1", "c2"}         \* native clients that can exist; c1 is the constructed one
Handles == {"producer", "producer_clone"}
Stoppers == {"s1", "s2"}        \* threads that call stop through a shared reference
Contexts == {"EmptyProducerContext", "BoxedContext"}
Unit == <<>>                    \* the DeliveryOpaque () of EmptyProducerContext
Unalloc == <<0>>                \* content of a heap address never allocated
Orders == <<1, 2>>              \* a topic name the cluster knows
Missing == <<3>>                \* a topic name the cluster does not know
Malformed == <<1, 0, 2>>        \* a topic name with an interior NUL byte
TopicNames == {Orders, Missing, Malformed}
KnownTopics == {Orders}
Addrs == 1..MaxMsgs
QueueCaps == 1..MaxMsgs         \* values of queue.buffering.max.messages explored

VARIABLES
  context,          \* the ProducerContext type the producer was built with
  queue_cap,        \* the configured capacity of the client's local queue
  client_arc,       \* handle -> client it references (BaseProducer.client_arc)
  engine,           \* client -> [transit, rep, msg_cnt]: the native producer
  sub,              \* the send_copy calls made so far, with their return value
  boxed,            \* addr -> token stored there by into_ptr (Unalloc if never)
  decoded,          \* addr -> number of from_ptr calls on that address
  deliveries,       \* message id -> sequence of ProducerContext::delivery calls
  th_pc,            \* position of the polling thread
  th_batch,         \* events taken by the thread's current rd_kafka_poll
  th_n,             \* events processed by the thread's poll call; n when it returns
  u_pc,             \* position of the user thread
  u_batch,          \* events taken by the user's current poll / flush
  u_n,              \* events processed by the user's poll call; its return value
  should_stop,      \* ThreadedProducer.should_stop
  handle,           \* ThreadedProducer.handle: "None" or "Some"
  pending_at_stop,  \* history: ids in the event queue when should_stop was stored
  last_flush,       \* history: how the user's last flush returned
  join_log,         \* history: the results of the JoinHandle::join calls of stop
  idle_after_stop,  \* history: the thread's last idle poll returned with should_stop set
  native,           \* client -> "none" | "live" | "destroyed": its native handle
  stop_pc           \* caller of stop -> "none" | "waiting" | "joining" | "returned"

vars == <<context, queue_cap, client_arc, engine, sub, boxed, decoded, deliveries, th_pc, th_batch,
          th_n, u_pc, u_batch, u_n, should_stop, handle, pending_at_stop,
          last_flush, join_log, idle_after_stop, native, stop_pc>>

\* ---- helpers on sequences ----
SeqIds(s) == {s[k].id : k \in 1..Len(s)}

\* ---- Opaque token codec (IntoOpaque) ----
\* the DeliveryOpaque values the user passes in call number id: () with
\* EmptyProducerContext, a boxed value naming the message otherwise
Tokens(ctx, id) == IF ctx = "EmptyProducerContext" THEN {Unit} ELSE {<<id>>}

\* into_ptr: a boxed token is moved to a fresh heap address, the unit token
\* is encoded as the null pointer.
into_ptr(tok, a) == IF tok = Unit THEN NULL ELSE a

\* from_ptr: the token read back from a raw pointer.
from_ptr(p) == IF p = NULL THEN Unit ELSE boxed[p]

\* the heap after into_ptr / the decode counters after from_ptr
BoxedAfterIntoPtr(tok, p) == IF p = NULL THEN boxed ELSE [boxed EXCEPT ![p] = tok]
DecodedAfterFromPtr(d, p) == IF p = NULL THEN d ELSE [d EXCEPT ![p] = @ + 1]

\* ---- CString::new ----
\* fails with a NulError when the bytes contain a 0, otherwise appends the
\* terminator.
CStringNew(s) ==
  IF \E k \in 1..Len(s) : s[k] = 0
    THEN [ok |-> FALSE, val |-> <<>>]
    ELSE [ok |-> TRUE, val |-> Append(s, 0)]

\* the topic name librdkafka reads from a C string: the bytes before the
\* terminator
CStrBytes(cs) == SubSeq(cs, 1, Len(cs) - 1)

\* ---- native client ----
\* rd_kafka_producev: the response code for a produce request on client c
rd_kafka_producev(c, topic_c) ==
  IF CStrBytes(topic_c) \notin KnownTopics THEN "UNKNOWN_TOPIC"
  ELSE IF engine[c].msg_cnt >= queue_cap THEN "QUEUE_FULL"
  ELSE "NO_ERROR"

\* the client after rd_kafka_producev answered `code` for message id whose
\* opaque is p: accepted messages wait for their outcome and are counted.
EngineAfterProducev(c, code, id, p) ==
  IF code = "NO_ERROR"
    THEN [engine EXCEPT ![c].transit = @ \cup {[id |-> id, private |-> p]},
                        ![c].msg_cnt = @ + 1]
    ELSE engine

\* rd_kafka_outq_len
rd_kafka_outq_len(c) == engine[c].msg_cnt

\* is_error with the test inverted
is_error_M4(code) == code = "NO_ERROR"

\* IsError::is_error on a response code
is_error(code) == code # "NO_ERROR"

\* ---- BaseProducer ----
\* in_flight_count computed from the calls made instead of asking the client
in_flight_count_M10(h) ==
  Len(sub) - Cardinality({i \in 1..Len(sub) : deliveries[i] # <<>>})

\* in_flight_count through handle h
in_flight_count(h) == rd_kafka_outq_len(client_arc[h])

\* send_copy dropping the delivery opaque whatever the response code is
send_copy_result_M1(produce_error, delivery_opaque_ptr) ==
  [ret |-> IF is_error(produce_error) THEN "MessageProduction" ELSE "Ok",
   drop_opaque |-> delivery_opaque_ptr # NULL]

\* send_copy treating only an unknown topic as an error
send_copy_result_M14(produce_error, delivery_opaque_ptr) ==
  IF produce_error = "UNKNOWN_TOPIC"
    THEN [ret |-> "MessageProduction",
          drop_opaque |-> delivery_opaque_ptr # NULL]
    ELSE [ret |-> "Ok", drop_opaque |-> FALSE]

\* the tail of send_copy: what it returns for a response code, and whether
\* it drops (decodes) the delivery opaque itself
send_copy_result(produce_error, delivery_opaque_ptr) ==
  IF is_error(produce_error)
    THEN [ret |-> "MessageProduction",
          drop_opaque |-> delivery_opaque_ptr # NULL]
    ELSE [ret |-> "Ok", drop_opaque |-> FALSE]

Started == th_pc # "not_started"

\* BaseProducer::send_copy, called by the user through handle h
send_copy(h, topic_name, delivery_opaque) ==
  /\ Started
  /\ u_pc = "idle"
  /\ Len(sub) < MaxMsgs
  /\ client_arc[h] # NONE
  /\ LET c == client_arc[h]
         id == Len(sub) + 1
         delivery_opaque_ptr == into_ptr(delivery_opaque, id)
         topic_name_c == CStringNew(topic_name)
         call == [topic |-> topic_name, tok |-> delivery_opaque,
                  ptr |-> delivery_opaque_ptr, via |-> h]
     IN /\ boxed' = BoxedAfterIntoPtr(delivery_opaque, delivery_opaque_ptr)
        /\ IF ~topic_name_c.ok
             THEN \* `?` returns the NulError; nothing below runs
                  /\ sub' = Append(sub, call @@ [ret |-> "NulError", code |-> "none"])
                  /\ UNCHANGED <<engine, decoded>>
             ELSE LET produce_error == rd_kafka_producev(c, topic_name_c.val)
                      res == send_copy_result(produce_error, delivery_opaque_ptr)
                  IN /\ engine' = EngineAfterProducev(c, produce_error, id,
                                                      delivery_opaque_ptr)
                     /\ decoded' = IF res.drop_opaque
                                     THEN DecodedAfterFromPtr(decoded, delivery_opaque_ptr)
                                     ELSE decoded
                     /\ sub' = Append(sub, call @@ [ret |-> res.ret,
                                                    code |-> produce_error])
  /\ UNCHANGED <<stop_pc, native, idle_after_stop, join_log, context, queue_cap, client_arc, deliveries, th_pc, th_batch, th_n, u_pc, u_batch,
                 u_n, should_stop, handle, pending_at_stop, last_flush>>

\* ---- Init ----
Init ==
  /\ context \in Contexts
  /\ queue_cap \in QueueCaps
  /\ client_arc = [h \in Handles |-> IF h = "producer" THEN "c1" ELSE NONE]
  /\ engine = [c \in Clients |-> [transit |-> {}, rep |-> <<>>, msg_cnt |-> 0]]
  /\ sub = <<>>
  /\ boxed = [a \in Addrs |-> Unalloc]
  /\ decoded = [a \in Addrs |-> 0]
  /\ deliveries = [i \in Addrs |-> <<>>]
  /\ th_pc = "not_started"
  /\ th_batch = <<>>
  /\ th_n = 0
  /\ u_pc = "idle"
  /\ u_batch = <<>>
  /\ u_n = 0
  /\ should_stop = FALSE
  /\ handle = "None"
  /\ pending_at_stop = {}
  /\ last_flush = "none"
  /\ join_log = <<>>
  /\ idle_after_stop = FALSE
  /\ native = [c \in Clients |-> IF c = "c1" THEN "live" ELSE "none"]
  /\ stop_pc = [s \in Stoppers |-> "none"]

\* ---- Delivery trampoline ----
\* BorrowedMessage::from_dr_callback: Ok for a message without error
from_dr_callback(msg) == IF msg.err = "NO_ERROR" THEN "Ok" ELSE "Err"

\* delivery_cb, run by poller `by` for message msg of client c: decodes the
\* opaque, builds the delivery result, calls ProducerContext::delivery of
\* the context registered with client c.
delivery_cb(c, msg, by) ==
  /\ decoded' = DecodedAfterFromPtr(decoded, msg.private)
  /\ deliveries' = [deliveries EXCEPT ![msg.id] =
                      Append(@, [token |-> from_ptr(msg.private),
                                 result |-> from_dr_callback(msg),
                                 ctx |-> c, by |-> by])]

\* rd_kafka_poll serving one event of the batch it took: the delivery
\* report callback runs, then the native message is destroyed.
ServeEvent(c, msg, by) ==
  /\ delivery_cb(c, msg, by)
  /\ engine' = [engine EXCEPT ![c].msg_cnt = @ - 1]

\* the native client finalizes the outcome of an accepted message: its
\* delivery report is queued on the event queue.
EngineFinalize(c, m, err) ==
  /\ \E h \in Handles : client_arc[h] = c
  /\ m \in engine[c].transit
  /\ engine' = [engine EXCEPT ![c].transit = @ \ {m},
                              ![c].rep = Append(@, m @@ [err |-> err])]
  /\ UNCHANGED <<stop_pc, native, idle_after_stop, join_log, context, queue_cap, client_arc, sub, boxed, decoded, deliveries, th_pc, th_batch,
                 th_n, u_pc, u_batch, u_n, should_stop, handle,
                 pending_at_stop, last_flush>>

\* clone creating a client of its own instead of sharing the Arc
clone_M9(h) == "c2"

\* ---- Clone for BaseProducer ----
\* the client the new handle references: the same Arc
clone(h) == client_arc[h]

\* the handles that reference client c: the strong count of its Arc
Holders(c) == {h \in Handles : client_arc[h] = c}

\* the native handles after the BaseProducer h is dropped: its Arc<Client>
\* is released, and the client -- with its native handle -- is destroyed
\* when h held the last reference
NativeAfterDrop(h) ==
  IF Holders(client_arc[h]) = {h}
    THEN [native EXCEPT ![client_arc[h]] = "destroyed"]
    ELSE native

\* start callable again on a wrapper whose thread was already spawned
start_M12 ==
  /\ client_arc["producer"] # NONE
  /\ client_arc' = [client_arc EXCEPT !["producer_clone"] = client_arc["producer"]]
  /\ th_pc' = "poll"
  /\ handle' = "Some"
  /\ UNCHANGED <<stop_pc, native, idle_after_stop, join_log, context, queue_cap, engine, sub, boxed, decoded, deliveries, th_batch, th_n, u_pc,
                 u_batch, u_n, should_stop, pending_at_stop, last_flush>>

\* start that spawns the thread but does not store its join handle
start_M7 ==
  /\ th_pc = "not_started"
  /\ client_arc' = [client_arc EXCEPT !["producer_clone"] = client_arc["producer"]]
  /\ th_pc' = "poll"
  /\ UNCHANGED <<stop_pc, native, idle_after_stop, join_log, context, queue_cap, engine, sub, boxed, decoded, deliveries, th_batch,
                 th_n, u_pc, u_batch, u_n, should_stop, handle, pending_at_stop,
                 last_flush>>

\* ---- ThreadedProducer::start ----
\* clones the producer, spawns the polling thread, stores the join handle
start ==
  /\ th_pc = "not_started"
  /\ client_arc' = [client_arc EXCEPT !["producer_clone"] = clone("producer")]
  /\ th_pc' = "poll"
  /\ handle' = "Some"
  /\ UNCHANGED <<stop_pc, native, idle_after_stop, join_log, context, queue_cap, engine, sub, boxed, decoded, deliveries, th_batch, th_n, u_pc,
                 u_batch, u_n, should_stop, pending_at_stop, last_flush>>

\* ---- the polling thread ----
\* producer_clone.poll(100ms): takes the queued events, or returns 0 when
\* the queue stayed empty; with n == 0 the thread goes on to load the flag.
thread_poll ==
  /\ th_pc = "poll"
  /\ LET c == client_arc["producer_clone"]
         q == engine[c].rep
     IN IF q = <<>>
          THEN /\ th_pc' = "load"
               /\ idle_after_stop' = should_stop
               /\ UNCHANGED <<engine, th_batch>>
          ELSE /\ th_pc' = "serve"
               /\ idle_after_stop' = FALSE
               /\ th_batch' = q
               /\ engine' = [engine EXCEPT ![c].rep = <<>>]
  /\ th_n' = 0
  /\ UNCHANGED <<stop_pc, native, join_log, context, queue_cap, client_arc, sub, boxed, decoded, deliveries, u_pc, u_batch,
                 u_n, should_stop, handle, pending_at_stop, last_flush>>

\* the loop loading should_stop after every poll, also when n # 0
thread_serve_M15 ==
  /\ th_pc = "serve"
  /\ th_batch # <<>>
  /\ ServeEvent(client_arc["producer_clone"], Head(th_batch), "thread")
  /\ th_batch' = Tail(th_batch)
  /\ th_n' = th_n + 1
  /\ th_pc' = IF Tail(th_batch) # <<>> THEN "serve"
              ELSE IF should_stop THEN "done" ELSE "poll"
  /\ UNCHANGED <<stop_pc, native, idle_after_stop, join_log, context, queue_cap, client_arc, sub, boxed, u_pc, u_batch, u_n, should_stop,
                 handle, pending_at_stop, last_flush>>

\* the thread's poll serves the next event it took; after the last one poll
\* returns n # 0 and the loop polls again.
thread_serve ==
  /\ th_pc = "serve"
  /\ th_batch # <<>>
  /\ ServeEvent(client_arc["producer_clone"], Head(th_batch), "thread")
  /\ th_batch' = Tail(th_batch)
  /\ th_n' = th_n + 1
  /\ th_pc' = IF Tail(th_batch) = <<>> THEN "poll" ELSE "serve"
  /\ UNCHANGED <<stop_pc, native, idle_after_stop, join_log, context, queue_cap, client_arc, sub, boxed, u_pc, u_batch, u_n, should_stop,
                 handle, pending_at_stop, last_flush>>

\* the loop never reading the flag: it polls for ever
after_load_M17(v) == "poll"

\* the loop breaking on every idle poll, whatever the flag says
after_load_M8(v) == "done"

\* the position after `if should_stop.load(Relaxed)` read the value v (the
\* load is atomic; it is modelled as reading the value last stored)
after_load(v) == IF v THEN "done" ELSE "poll"

\* n == 0: load should_stop; break when it is set (the closure ends and
\* drops producer_clone), otherwise loop.
thread_load ==
  /\ th_pc = "load"
  /\ th_pc' = after_load(should_stop)
  /\ idle_after_stop' = (th_pc' = "done" /\ idle_after_stop)
  /\ client_arc' = IF th_pc' = "done"
                     THEN [client_arc EXCEPT !["producer_clone"] = NONE]
                     ELSE client_arc
  /\ native' = IF th_pc' = "done" THEN NativeAfterDrop("producer_clone") ELSE native
  /\ UNCHANGED <<stop_pc, join_log, context, queue_cap, engine, sub, boxed, decoded, deliveries, th_batch, th_n, u_pc,
                 u_batch, u_n, should_stop, handle, pending_at_stop, last_flush>>

\* ---- the user thread ----
\* ThreadedProducer::poll -> BaseProducer::poll
poll ==
  /\ Started
  /\ u_pc = "idle"
  /\ LET c == client_arc["producer"]
         q == engine[c].rep
     IN IF q = <<>>
          THEN UNCHANGED <<engine, u_batch, u_pc>>
          ELSE /\ u_pc' = "poll"
               /\ u_batch' = q
               /\ engine' = [engine EXCEPT ![c].rep = <<>>]
  /\ u_n' = 0
  /\ UNCHANGED <<stop_pc, native, idle_after_stop, join_log, context, queue_cap, client_arc, sub, boxed, decoded, deliveries, th_pc, th_batch,
                 th_n, should_stop, handle, pending_at_stop, last_flush>>

\* a poll that serves an event without counting it in its return value
user_serve_M19 ==
  /\ u_pc \in {"poll", "flush_serve"}
  /\ u_batch # <<>>
  /\ ServeEvent(client_arc["producer"], Head(u_batch), "user")
  /\ u_batch' = Tail(u_batch)
  /\ u_n' = u_n
  /\ u_pc' = IF Tail(u_batch) # <<>> THEN u_pc
             ELSE IF u_pc = "poll" THEN "idle" ELSE "flush"
  /\ UNCHANGED <<stop_pc, native, idle_after_stop, join_log, context, queue_cap, client_arc, sub, boxed, th_pc, th_batch, th_n, should_stop,
                 handle, pending_at_stop, last_flush>>

\* the user's poll or flush serves the next event it took
user_serve ==
  /\ u_pc \in {"poll", "flush_serve"}
  /\ u_batch # <<>>
  /\ ServeEvent(client_arc["producer"], Head(u_batch), "user")
  /\ u_batch' = Tail(u_batch)
  /\ u_n' = u_n + 1
  /\ u_pc' = IF Tail(u_batch) # <<>> THEN u_pc
             ELSE IF u_pc = "poll" THEN "idle" ELSE "flush"
  /\ UNCHANGED <<stop_pc, native, idle_after_stop, join_log, context, queue_cap, client_arc, sub, boxed, th_pc, th_batch, th_n, should_stop,
                 handle, pending_at_stop, last_flush>>

\* ThreadedProducer::flush -> BaseProducer::flush -> rd_kafka_flush
flush ==
  /\ Started
  /\ u_pc = "idle"
  /\ u_pc' = "flush"
  /\ last_flush' = "none"
  /\ UNCHANGED <<stop_pc, native, idle_after_stop, join_log, context, queue_cap, client_arc, engine, sub, boxed, decoded, deliveries, th_pc,
                 th_batch, th_n, u_batch, u_n, should_stop, handle,
                 pending_at_stop>>

\* rd_kafka_flush polls while messages are outstanding
flush_poll ==
  /\ u_pc = "flush"
  /\ LET c == client_arc["producer"]
         q == engine[c].rep
     IN /\ q # <<>>
        /\ u_batch' = q
        /\ engine' = [engine EXCEPT ![c].rep = <<>>]
  /\ u_pc' = "flush_serve"
  /\ u_n' = 0
  /\ UNCHANGED <<stop_pc, native, idle_after_stop, join_log, context, queue_cap, client_arc, sub, boxed, decoded, deliveries, th_pc, th_batch,
                 th_n, should_stop, handle, pending_at_stop, last_flush>>

\* flush returning as drained without looking at the outstanding messages
flush_return_M11(timed_out) ==
  /\ u_pc = "flush"
  /\ last_flush' = IF timed_out THEN "timeout" ELSE "drained"
  /\ u_pc' = "idle"
  /\ UNCHANGED <<stop_pc, native, idle_after_stop, join_log, context, queue_cap, client_arc, engine, sub, boxed, decoded, deliveries, th_pc,
                 th_batch, th_n, u_batch, u_n, should_stop, handle,
                 pending_at_stop>>

\* rd_kafka_flush returns: nothing is outstanding, or the timeout elapsed
flush_return(timed_out) ==
  /\ u_pc = "flush"
  /\ IF timed_out
       THEN /\ rd_kafka_outq_len(client_arc["producer"]) > 0
            /\ last_flush' = "timeout"
       ELSE /\ rd_kafka_outq_len(client_arc["producer"]) = 0
            /\ last_flush' = "drained"
  /\ u_pc' = "idle"
  /\ UNCHANGED <<stop_pc, native, idle_after_stop, join_log, context, queue_cap, client_arc, engine, sub, boxed, decoded, deliveries, th_pc,
                 th_batch, th_n, u_batch, u_n, should_stop, handle,
                 pending_at_stop>>

\* ---- Drop for ThreadedProducer -> stop ----
\* stop, first half: takes the handle lock; with a handle stored it stores
\* should_stop = true and goes on to join; with none it returns at once.
drop_stop ==
  /\ Started
  /\ u_pc = "idle"
  /\ \A s \in Stoppers : stop_pc[s] \in {"none", "returned"}
  /\ IF handle = "Some"
       THEN /\ should_stop' = TRUE
            /\ u_pc' = "join"
            /\ pending_at_stop' = SeqIds(engine[client_arc["producer"]].rep)
            /\ UNCHANGED <<client_arc, native>>
       ELSE /\ u_pc' = "dropped"
            /\ client_arc' = [client_arc EXCEPT !["producer"] = NONE]
            /\ native' = NativeAfterDrop("producer")
            /\ UNCHANGED <<should_stop, pending_at_stop>>
  /\ UNCHANGED <<stop_pc, idle_after_stop, join_log, context, queue_cap, engine, sub, boxed, decoded, deliveries, th_pc, th_batch, th_n,
                 u_batch, u_n, handle, last_flush>>

\* stop that takes the handle and returns without joining the thread
drop_join_M6 ==
  /\ u_pc = "join"
  /\ handle' = "None"
  /\ join_log' = join_log
  /\ u_pc' = "dropped"
  /\ client_arc' = [client_arc EXCEPT !["producer"] = NONE]
  /\ native' = NativeAfterDrop("producer")
  /\ UNCHANGED <<stop_pc, idle_after_stop, context, queue_cap, engine, sub, boxed, decoded, deliveries, th_pc,
                 th_batch, th_n, u_batch, u_n, should_stop, pending_at_stop,
                 last_flush>>

\* stop matching the join result by unwrapping it
after_join_M13(result) == IF result = "Ok" THEN "dropped" ELSE "unwinding"

\* JoinHandle::join: Ok when the thread returned, Err when it panicked
join(pc) == IF pc = "done" THEN "Ok" ELSE "Err"

\* the position of the caller after `match ...join()`: Ok is traced, Err is
\* logged with warn!; both arms return normally
after_join(result) == "dropped"

\* stop, second half: take().unwrap().join() returns once the polling
\* thread has terminated; the result is logged, stop and drop return and
\* the wrapper's fields (its producer) are dropped.
drop_join ==
  /\ u_pc = "join"
  /\ th_pc \in {"done", "panicked"}
  /\ handle' = "None"
  /\ join_log' = Append(join_log, join(th_pc))
  /\ u_pc' = after_join(join(th_pc))
  /\ client_arc' = IF u_pc' = "dropped"
                     THEN [client_arc EXCEPT !["producer"] = NONE]
                     ELSE client_arc
  /\ native' = IF u_pc' = "dropped" THEN NativeAfterDrop("producer") ELSE native
  /\ UNCHANGED <<stop_pc, idle_after_stop, context, queue_cap, engine, sub, boxed, decoded, deliveries, th_pc, th_batch, th_n,
                 u_batch, u_n, should_stop, pending_at_stop, last_flush>>

\* ---- ThreadedProducer::stop called through &self by several threads ----
\* the write guard of `handle` is held from handle.write() to the end of
\* stop: by the drop while it joins, or by a caller of stop while it joins
handle_locked == u_pc = "join" \/ \E s \in Stoppers : stop_pc[s] = "joining"

\* a thread that shares the wrapper calls stop and blocks in handle.write()
stop_call(s) ==
  /\ Started
  /\ u_pc \in {"idle", "poll", "flush", "flush_serve"}
  /\ stop_pc[s] = "none"
  /\ stop_pc' = [stop_pc EXCEPT ![s] = "waiting"]
  /\ UNCHANGED <<native, idle_after_stop, join_log, context, queue_cap, client_arc, engine, sub, boxed, decoded,
                 deliveries, th_pc, th_batch, th_n, u_pc, u_batch, u_n, should_stop, handle,
                 pending_at_stop, last_flush>>

\* stop checking is_some without holding the write guard
stop_lock_M20(s) ==
  /\ stop_pc[s] = "waiting"
  /\ u_pc # "aborted"
  /\ IF handle = "Some"
       THEN /\ should_stop' = TRUE
            /\ stop_pc' = [stop_pc EXCEPT ![s] = "joining"]
            /\ pending_at_stop' = SeqIds(engine[client_arc["producer"]].rep)
       ELSE /\ stop_pc' = [stop_pc EXCEPT ![s] = "returned"]
            /\ UNCHANGED <<should_stop, pending_at_stop>>
  /\ UNCHANGED <<native, idle_after_stop, join_log, context, queue_cap, client_arc, engine, sub, boxed, decoded,
                 deliveries, th_pc, th_batch, th_n, u_pc, u_batch, u_n, handle, last_flush>>

\* the caller gets the write guard; with a handle stored it stores
\* should_stop = true and goes on to join, keeping the guard; with none it
\* returns at once, releasing the guard.
stop_lock(s) ==
  /\ stop_pc[s] = "waiting"
  /\ u_pc # "aborted"
  /\ ~handle_locked
  /\ IF handle = "Some"
       THEN /\ should_stop' = TRUE
            /\ stop_pc' = [stop_pc EXCEPT ![s] = "joining"]
            /\ pending_at_stop' = SeqIds(engine[client_arc["producer"]].rep)
       ELSE /\ stop_pc' = [stop_pc EXCEPT ![s] = "returned"]
            /\ UNCHANGED <<should_stop, pending_at_stop>>
  /\ UNCHANGED <<native, idle_after_stop, join_log, context, queue_cap, client_arc, engine, sub, boxed, decoded,
                 deliveries, th_pc, th_batch, th_n, u_pc, u_batch, u_n, handle, last_flush>>

\* take().unwrap().join() returns once the polling thread has terminated;
\* the result is logged and stop returns, releasing the guard
stop_join(s) ==
  /\ stop_pc[s] = "joining"
  /\ th_pc \in {"done", "panicked"}
  /\ handle' = "None"
  /\ join_log' = Append(join_log, join(th_pc))
  /\ stop_pc' = [stop_pc EXCEPT ![s] = IF after_join(join(th_pc)) = "dropped"
                                         THEN "returned" ELSE "unwinding"]
  /\ UNCHANGED <<native, idle_after_stop, context, queue_cap, client_arc, engine, sub, boxed, decoded, deliveries,
                 th_pc, th_batch, th_n, u_pc, u_batch, u_n, should_stop, pending_at_stop,
                 last_flush>>

\* ---- a panicking delivery handler ----
PanicOutcomes == {"unwind", "abort"}

\* ProducerContext::delivery panics while the thread's poll serves an event:
\* the opaque was decoded and the handler entered; the panic leaves the
\* extern "C" delivery_cb, which either unwinds the polling thread (its
\* closure and producer_clone are dropped, join will return Err) or aborts
\* the process.
thread_panic(outcome) ==
  /\ th_pc = "serve"
  /\ th_batch # <<>>
  /\ delivery_cb(client_arc["producer_clone"], Head(th_batch), "thread")
  /\ th_batch' = Tail(th_batch)
  /\ IF outcome = "unwind"
       THEN /\ th_pc' = "panicked"
            /\ client_arc' = [client_arc EXCEPT !["producer_clone"] = NONE]
            /\ native' = NativeAfterDrop("producer_clone")
            /\ UNCHANGED u_pc
       ELSE /\ th_pc' = "aborted"
            /\ u_pc' = "aborted"
            /\ UNCHANGED <<client_arc, native>>
  /\ UNCHANGED <<stop_pc, idle_after_stop, join_log, context, queue_cap, engine, sub, boxed, th_n, u_batch, u_n,
                 should_stop, handle, pending_at_stop, last_flush>>

\* ---- specification ----
EngineStep ==
  \E c \in Clients : \E m \in engine[c].transit :
    \E err \in {"NO_ERROR", "MSG_TIMED_OUT"} : EngineFinalize(c, m, err)

ThreadStep == thread_poll \/ thread_serve \/ thread_load

Next ==
  \/ start
  \/ \E t \in TopicNames : \E tok \in Tokens(context, Len(sub) + 1) :
       send_copy("producer", t, tok)
  \/ EngineStep
  \/ thread_poll
  \/ thread_serve
  \/ thread_load
  \/ poll
  \/ user_serve
  \/ flush
  \/ flush_poll
  \/ \E timed_out \in BOOLEAN : flush_return(timed_out)
  \/ drop_stop
  \/ drop_join

Spec == Init /\ [][Next]_vars

\* the same program with a delivery handler that can panic
NextPanic == Next \/ \E outcome \in PanicOutcomes : thread_panic(outcome)

SpecPanic == Init /\ [][NextPanic]_vars

\* the wrapper shared with threads that call stop, with a delivery handler
\* that can panic
NextStop ==
  \/ start
  \/ \E t \in TopicNames : \E tok \in Tokens(context, Len(sub) + 1) :
       send_copy("producer", t, tok)
  \/ EngineStep
  \/ thread_poll
  \/ thread_serve
  \/ thread_load
  \/ \E outcome \in PanicOutcomes : thread_panic(outcome)
  \/ \E s \in Stoppers : stop_call(s)
  \/ \E s \in Stoppers : stop_lock(s)
  \/ \E s \in Stoppers : stop_join(s)
  \/ drop_stop
  \/ drop_join

SpecStop == Init /\ [][NextStop]_vars

\* the constructor finishes, the polling thread and a call in progress on
\* the user thread keep running, and the native client finalizes every
\* message it accepted
FairSpec ==
  /\ Spec
  /\ WF_vars(start)
  /\ WF_vars(ThreadStep)
  /\ WF_vars(EngineStep)
  /\ WF_vars(user_serve \/ drop_join)

TypeOK ==
  /\ client_arc \in [Handles -> Clients \cup {NONE}]
  /\ th_pc \in {"not_started", "poll", "serve", "load", "done", "panicked", "aborted"}
  /\ u_pc \in {"idle", "poll", "flush", "flush_serve", "join", "dropped", "aborted"}
  /\ should_stop \in BOOLEAN
  /\ handle \in {"None", "Some"}
  /\ idle_after_stop \in BOOLEAN
  /\ native \in [Clients -> {"none", "live", "destroyed"}]
  /\ stop_pc \in [Stoppers -> {"none", "waiting", "joining", "returned"}]
  /\ Len(sub) <= MaxMsgs

\* ---- vocabulary of the properties ----
Calls == 1..Len(sub)
Accepted(i) == i \in Calls /\ sub[i].ret = "Ok"
Rejected(i) == i \in Calls /\ sub[i].ret # "Ok"
Fired(i) == deliveries[i] # <<>>
FiredBy(i, who) == \E k \in 1..Len(deliveries[i]) : deliveries[i][k].by = who
Ready(i) == \E c \in Clients : i \in SeqIds(engine[c].rep)
InTransit(i) == \E c \in Clients : \E m \in engine[c].transit : m.id = i
Live(h) == client_arc[h] # NONE
Dropped == u_pc = "dropped"

\* C1: for every accepted send_copy, ProducerContext::delivery is invoked at
\* most once for that message, every invocation receives the token that was
\* submitted, and the encoded token is decoded at most once -- under every
\* interleaving of sends, polls of the polling thread and polls of the user.
C1_AtMostOnce ==
  \A i \in Addrs :
    Accepted(i) =>
      /\ Len(deliveries[i]) <= 1
      /\ \A k \in 1..Len(deliveries[i]) : deliveries[i][k].token = sub[i].tok
      /\ sub[i].ptr # NULL => decoded[sub[i].ptr] <= 1

\* C1 witness: two accepted messages with boxed tokens have been
\* delivered, one by the polling thread and one by a poll of the user.
C1_Witness ==
  \E i, j \in Addrs :
    /\ Accepted(i) /\ Accepted(j)
    /\ sub[i].ptr # NULL /\ decoded[sub[i].ptr] = 1
    /\ FiredBy(i, "thread") /\ FiredBy(j, "user")

\* C2 (as stated): every accepted send_copy is eventually followed by its
\* delivery callback, in every execution.
C2_Original == \A i \in Addrs : Accepted(i) ~> Fired(i)

\* C2 (amended): every accepted send_copy is eventually followed by its
\* delivery callback unless the ThreadedProducer is dropped (stop requested)
\* before the callback has run.
C2_UnlessStopped == \A i \in Addrs : Accepted(i) ~> (Fired(i) \/ should_stop)

\* C2 witness: an accepted message got its callback while no stop was
\* requested.
C2_Witness == \E i \in Addrs : Accepted(i) /\ Fired(i) /\ ~should_stop

\* C3: when send_copy returned an error, the token it encoded (a non-null
\* opaque pointer) has been decoded exactly once.
C3_ErrorDecodesToken ==
  \A i \in Calls :
    (Rejected(i) /\ sub[i].ptr # NULL) => decoded[sub[i].ptr] = 1

\* C4: a send_copy that returned Err never gets a delivery callback, in any
\* later sequence of polls and flushes.
C4_RejectedNeverDelivered == \A i \in Addrs : Rejected(i) => ~Fired(i)

\* C4 witness: a call was rejected by the client (its token dropped by
\* send_copy) and callbacks of another message were served meanwhile.
C4_Witness ==
  \E i, j \in Addrs :
    /\ Rejected(i) /\ sub[i].ret = "MessageProduction"
    /\ sub[i].ptr # NULL /\ decoded[sub[i].ptr] = 1
    /\ Fired(j)

\* C5: when the drop (stop) has returned, every event that was in the
\* client's event queue when should_stop was stored has had its callback.
C5_PendingDrained == Dropped => \A i \in pending_at_stop : Fired(i)

\* C6 (as stated): when the drop has returned, the callback has fired for
\* every accepted submission, the thread has terminated and was joined.
C6_Original ==
  Dropped =>
    /\ \A i \in Addrs : Accepted(i) => Fired(i)
    /\ th_pc = "done" /\ handle = "None"

\* C6 (amended): when the drop has returned, the polling thread has left its
\* loop (stop flag set, thread terminated and joined, no join handle stored)
\* and has fired the callback of every event it took from the queue; an
\* accepted submission without callback is still held by the client.
C6_DropJoins ==
  Dropped =>
    /\ th_pc = "done" /\ handle = "None" /\ should_stop
    /\ th_batch = <<>>
    /\ \A i \in Addrs : (Accepted(i) /\ ~Fired(i)) => (InTransit(i) \/ Ready(i))

\* C6 witness: the drop returned; an event queued at the stop request was
\* served and another accepted submission is still without callback.
C6_Witness ==
  /\ Dropped
  /\ \E i \in pending_at_stop : FiredBy(i, "thread")
  /\ \E j \in Addrs : Accepted(j) /\ ~Fired(j)

\* C7: once the drop (stop) has returned the polling thread has terminated
\* and no delivery callback fires any more.
C7_NoCallbackAfterStop ==
  /\ [](Dropped => th_pc = "done")
  /\ [][Dropped => deliveries' = deliveries]_vars

\* C7 witness: the drop returned while an outcome event is still queued.
C7_Witness == Dropped /\ \E i \in Addrs : Ready(i) /\ ~Fired(i)

\* C8: while no stop is requested, every event in the event queue is
\* eventually served by the polling thread, unless a poll of the user took
\* it first.
C8_AutoPoll ==
  \A i \in Addrs :
    Ready(i) ~> \/ FiredBy(i, "thread")
                \/ i \in SeqIds(u_batch) \/ FiredBy(i, "user")
                \/ should_stop

\* C8 witness: the thread delivered a message and the user never polled or
\* flushed.
C8_Witness ==
  /\ \E i \in Addrs : FiredBy(i, "thread")
  /\ \A i \in Addrs : ~FiredBy(i, "user")
  /\ ~should_stop /\ last_flush = "none" /\ u_pc = "idle"

\* C9: every live handle references the one client made at construction,
\* in_flight_count agrees on all of them, and every callback runs on that
\* client's context, also for a message sent through `producer` and polled
\* through `producer_clone`.
C9_ClonesShare ==
  /\ \A h1, h2 \in Handles :
       (Live(h1) /\ Live(h2)) =>
         /\ client_arc[h1] = client_arc[h2]
         /\ in_flight_count(h1) = in_flight_count(h2)
  /\ \A h \in Handles : Live(h) => client_arc[h] = "c1"
  /\ \A i \in Addrs : \A k \in 1..Len(deliveries[i]) : deliveries[i][k].ctx = "c1"

\* C9 witness: a message sent through `producer` was drained by the poll of
\* `producer_clone` while another is in flight and both handles are live.
C9_Witness ==
  /\ Live("producer") /\ Live("producer_clone")
  /\ in_flight_count("producer_clone") = 1
  /\ \E i \in Addrs : Accepted(i) /\ sub[i].via = "producer" /\ FiredBy(i, "thread")

\* C10: in_flight_count is never negative, it grows only in a step in which
\* send_copy accepts a message, and it does not grow in a step that runs a
\* delivery callback.
C10_InFlightMonotone ==
  /\ [](\A h \in Handles : Live(h) => in_flight_count(h) >= 0)
  /\ [][\A h \in Handles :
          (Live(h) /\ client_arc'[h] # NONE) =>
            /\ in_flight_count(h)' > in_flight_count(h) =>
                 (Len(sub') = Len(sub) + 1 /\ sub'[Len(sub')].ret = "Ok")
            /\ deliveries' # deliveries =>
                 in_flight_count(h)' <= in_flight_count(h)]_vars

\* C10 witness: a message was accepted and drained by a flush that returned
\* with nothing outstanding, and another send_copy was rejected.
C10_Witness ==
  /\ Live("producer") /\ in_flight_count("producer") = 0
  /\ last_flush = "drained"
  /\ \E i, j \in Addrs : Fired(i) /\ Rejected(j)

\* an accepted message without callback is still held: by the client (in
\* transit or queued) or by a poll that took its event
Held(i) ==
  \/ InTransit(i) \/ Ready(i)
  \/ i \in SeqIds(th_batch) \/ i \in SeqIds(u_batch)

\* C11: flush returns either with the timeout elapsed or with nothing
\* outstanding; when it returns without timeout, in_flight_count is 0 and the
\* callback of every accepted message has fired; while a flush runs no
\* accepted message is cancelled or discarded.
C11_Flush ==
  /\ [][(u_pc = "flush" /\ u_pc' = "idle") =>
          /\ last_flush' \in {"drained", "timeout"}
          /\ last_flush' = "drained" =>
               /\ in_flight_count("producer")' = 0
               /\ \A i \in Addrs : Accepted(i) => Fired(i)']_vars
  /\ [](u_pc \in {"flush", "flush_serve"} =>
          \A i \in Addrs : (Accepted(i) /\ ~Fired(i)) => Held(i))

\* C11 witness: a flush that served a callback itself has returned with
\* nothing outstanding, after two messages were accepted.
C11_Witness ==
  /\ u_pc = "idle" /\ last_flush = "drained"
  /\ in_flight_count("producer") = 0
  /\ \E i, j \in Addrs : i # j /\ Accepted(i) /\ Accepted(j) /\ FiredBy(i, "user")

\* the background loop state of the wrapper
LoopState ==
  IF th_pc = "not_started" THEN "NotStarted"
  ELSE IF th_pc \in {"done", "panicked", "aborted"} THEN "Stopped"
  ELSE IF should_stop THEN "StopRequested"
  ELSE "Running"

LoopRank(st) ==
  IF st = "NotStarted" THEN 0
  ELSE IF st = "Running" THEN 1
  ELSE IF st = "StopRequested" THEN 2
  ELSE 3

\* C12: the loop state only moves forward through NotStarted, Running,
\* StopRequested, Stopped; the thread is spawned (and its handle stored) only
\* by the one start of a not yet started wrapper; should_stop is never reset.
C12_ForwardOnly ==
  /\ [][LoopRank(LoopState') >= LoopRank(LoopState)]_vars
  /\ [][should_stop => should_stop']_vars
  /\ [][(th_pc # "not_started") => (th_pc' # "not_started")]_vars
  /\ [][(handle = "None" /\ handle' = "Some") => th_pc = "not_started"]_vars

\* C12 witness: the loop went through all four states: it served events
\* while running and is stopped with its handle taken.
C12_Witness ==
  /\ LoopState = "Stopped" /\ handle = "None" /\ should_stop
  /\ \E i \in Addrs : FiredBy(i, "thread") /\ i \notin pending_at_stop

\* C13: when the polling thread has panicked, the join of stop returns (it
\* does not block), and the step in which it returns logs the Err, leaves no
\* join handle stored, returns normally and lets the drop release the
\* wrapper's producer.
C13_JoinFailureAbsorbed ==
  /\ []((u_pc = "join" /\ th_pc = "panicked") => ENABLED drop_join)
  /\ [][(u_pc = "join" /\ th_pc = "panicked" /\ u_pc' # "join") =>
          /\ join_log' = Append(join_log, "Err")
          /\ handle' = "None"
          /\ u_pc' = "dropped"
          /\ client_arc'["producer"] = NONE]_vars

\* C13 witness: the drop has returned after joining a panicked thread.
C13_Witness ==
  /\ Dropped /\ th_pc = "panicked"
  /\ join_log = <<"Err">> /\ handle = "None" /\ ~Live("producer")

\* C14: a send_copy to a known topic made while the client's local queue is
\* at capacity answers QueueFull; a call answered QueueFull returns the
\* MessageProduction error and leaves the client (in-flight count, messages in
\* transit, queued events) as it was.
C14_QueueFull ==
  [][(Len(sub') = Len(sub) + 1) =>
       LET call == sub'[Len(sub')]
       IN /\ (call.topic \in KnownTopics
               /\ in_flight_count("producer") >= queue_cap) =>
                 call.code = "QUEUE_FULL"
          /\ call.code = "QUEUE_FULL" =>
               /\ call.ret = "MessageProduction"
               /\ engine' = engine
               /\ in_flight_count("producer")' = in_flight_count("producer")]_vars

\* C14 witness: a call was answered QueueFull while the queue is still at
\* capacity with unresolved messages; its boxed token was dropped.
C14_Witness ==
  /\ Live("producer") /\ in_flight_count("producer") = queue_cap
  /\ \E i \in Calls :
       /\ sub[i].code = "QUEUE_FULL" /\ sub[i].ret = "MessageProduction"
       /\ sub[i].ptr # NULL /\ decoded[sub[i].ptr] = 1

\* C15: the loop terminates only from the n == 0 branch (its poll returned
\* zero events) by reading should_stop as true; a poll that served one or
\* more events is always followed by another poll, also when a stop has
\* been requested.
C15_ExitOnlyIdleThenStop ==
  /\ [](th_pc = "load" => th_n = 0)
  /\ [][(th_pc # "done" /\ th_pc' = "done") =>
          (th_pc = "load" /\ th_n = 0 /\ should_stop)]_vars
  /\ [][(th_pc = "serve" /\ th_pc' # "serve") =>
          (th_pc' = "poll" /\ th_n' >= 1)]_vars

\* C15 witness: with the stop already requested, a poll of the thread
\* served events and the loop is about to poll again.
C15_Witness == th_pc = "poll" /\ should_stop /\ th_n >= 1 /\ u_pc = "join"

\* C16: the loop exits only after an idle poll that returned when the stop
\* flag was already stored, and at the moment it exits no event is left in
\* the client's event queue.
C16_IdlePollAfterStop ==
  [][(th_pc = "load" /\ th_pc' = "done") =>
       /\ idle_after_stop
       /\ \A c \in Clients : engine[c].rep = <<>>]_vars

\* C17: stop terminates. It stores the stop flag before it joins, and once
\* it waits in the join the loop eventually sees an idle poll with the flag
\* set and exits, so the join -- hence stop and the drop -- returns.
C17_StopTerminates ==
  /\ [](u_pc = "join" => should_stop /\ handle = "Some")
  /\ (u_pc = "join") ~> (th_pc = "done")
  /\ (u_pc = "join") ~> (Dropped /\ handle = "None" /\ join_log = <<"Ok">>)

\* the drop returned although, when stop stored the flag, the loop still
\* had to deliver a message and another report was not ready yet
C17_Witness ==
  /\ Dropped
  /\ join_log = <<"Ok">>
  /\ \E i \in pending_at_stop : \E j \in Addrs \ pending_at_stop :
       /\ FiredBy(i, "thread")
       /\ FiredBy(j, "thread")

\* C18: the native handle is released only when its last holder drops it.
\* A client referenced by any BaseProducer -- the wrapper's producer or the
\* loop's producer_clone -- is live, so every poll of the loop runs on a
\* live handle; a client is destroyed only in a step after which no handle
\* references it; and the wrapper's producer is released only after the
\* loop's producer_clone was.
C18_ReleasedByLastHolder ==
  /\ [](\A h \in Handles : Live(h) => native[client_arc[h]] = "live")
  /\ [](th_pc \in {"poll", "serve", "load"} =>
          Live("producer_clone") /\ native[client_arc["producer_clone"]] = "live")
  /\ [][\A c \in Clients :
          (native[c] = "live" /\ native'[c] # "live") =>
            (native'[c] = "destroyed" /\ \A h \in Handles : client_arc'[h] # c)]_vars
  /\ [][(Live("producer") /\ ~Live("producer")') => ~Live("producer_clone")]_vars
  /\ [](Dropped => \A c \in Clients : native[c] # "live")

\* the loop has exited and released its clone while the wrapper, waiting in
\* the join, still holds the client: the native handle is alive
C18_Witness ==
  /\ th_pc = "done"
  /\ u_pc = "join"
  /\ ~Live("producer_clone")
  /\ Live("producer")
  /\ native[client_arc["producer"]] = "live"
  /\ \E i \in Addrs : FiredBy(i, "thread")

\* one invocation of the delivery handler for event m, made by poller who
Invoked(m, who) ==
  /\ Len(deliveries'[m.id]) = Len(deliveries[m.id]) + 1
  /\ deliveries'[m.id][Len(deliveries'[m.id])].by = who
  /\ \A j \in Addrs \ {m.id} : deliveries'[j] = deliveries[j]

\* C19: a call of poll takes the ready events and starts counting at 0; it
\* invokes the delivery handler exactly once for each event it took, in
\* order, on the thread that called poll and before the call returns; the
\* handler is invoked nowhere else; and the call returns when every event
\* it took was served, its count being the number of events served (0 when
\* none was ready).
C19_PollCountsEvents ==
  /\ [](u_pc \notin {"poll", "flush_serve"} => u_batch = <<>>)
  /\ [](th_pc # "serve" => th_batch = <<>>)
  /\ [][poll =>
         /\ u_n' = 0
         /\ u_batch' = engine[client_arc["producer"]].rep
         /\ deliveries' = deliveries
         /\ (u_pc' = "idle") <=> (u_batch' = <<>>)]_vars
  /\ [][thread_poll =>
         /\ th_n' = 0
         /\ th_batch' = engine[client_arc["producer_clone"]].rep
         /\ deliveries' = deliveries
         /\ (th_pc' = "load") <=> (th_batch' = <<>>)]_vars
  /\ [][(u_batch # <<>> /\ u_batch' # u_batch) =>
         /\ u_batch' = Tail(u_batch)
         /\ u_n' = u_n + 1
         /\ Invoked(Head(u_batch), "user")]_vars
  /\ [][(th_batch # <<>> /\ th_batch' # th_batch) =>
         /\ th_batch' = Tail(th_batch)
         /\ th_n' = th_n + 1
         /\ Invoked(Head(th_batch), "thread")]_vars
  /\ [][deliveries' # deliveries =>
         \/ u_batch # <<>> /\ u_batch' # u_batch
         \/ th_batch # <<>> /\ th_batch' # th_batch]_vars
  /\ [][(u_pc = "poll" /\ u_pc' = "idle") => (u_batch' = <<>> /\ u_n' >= 1)]_vars

\* a user's poll returned 2 after it invoked the handler for two events
C19_Witness ==
  /\ u_pc = "idle"
  /\ last_flush = "none"
  /\ u_n = 2
  /\ \A i \in 1..2 : FiredBy(i, "user")

\* everything but the positions of the callers of stop
allButStopPc ==
  <<context, queue_cap, client_arc, engine, sub, boxed, decoded, deliveries,
    th_pc, th_batch, th_n, u_pc, u_batch, u_n, should_stop, handle,
    pending_at_stop, last_flush, join_log, idle_after_stop, native>>

\* C20: stop is idempotent and safe under concurrent calls. The polling
\* thread is joined at most once, and exactly once when a stop has returned;
\* at most one caller is in the join; a stop -- or the drop -- returns only
\* after the thread has terminated and the handle was taken; and a stop
\* that finds the handle taken returns without changing anything.
C20_StopIdempotent ==
  /\ [](Len(join_log) <= 1)
  /\ [](Cardinality({s \in Stoppers : stop_pc[s] = "joining"}) <= 1)
  /\ []((u_pc = "join") => \A s \in Stoppers : stop_pc[s] # "joining")
  /\ [](\A s \in Stoppers : stop_pc[s] = "returned" =>
          /\ th_pc \in {"done", "panicked"}
          /\ handle = "None"
          /\ Len(join_log) = 1)
  /\ [](Dropped => th_pc \in {"done", "panicked"} /\ handle = "None" /\ Len(join_log) = 1)
  /\ [][\A s \in Stoppers :
          (handle = "None" /\ stop_pc'[s] # stop_pc[s] /\ stop_pc[s] = "waiting") =>
            (stop_pc'[s] = "returned" /\ UNCHANGED allButStopPc)]_vars
  /\ [][(handle = "None" /\ u_pc = "idle" /\ u_pc' = "dropped") =>
          UNCHANGED <<should_stop, join_log, th_pc, handle, engine, deliveries>>]_vars

\* two threads called stop while the loop still had an event to serve: one
\* joined the thread, the other found the handle taken, both have returned,
\* and the drop of the wrapper then found nothing to join
C20_Witness ==
  /\ \A s \in Stoppers : stop_pc[s] = "returned"
  /\ Dropped
  /\ Len(join_log) = 1
  /\ \E i \in pending_at_stop : FiredBy(i, "thread")

====
